---- MODULE Spec2Model ----
(***************************************************************************)
(* A model of the Streamlit unit converter in src/app.py: the conversion   *)
(* engine (linear tables, temperature formula, currency rate lookup), the  *)
(* cached currency symbol list and the session's conversion history.       *)
(*                                                                         *)
(* Numbers.  Python computes in binary floating point.  Here every number  *)
(* is an exact rational n/d * 10^e in canonical form (d > 0 coprime to 10  *)
(* and to n, n not divisible by 10), so that equality of numbers is        *)
(* equality of records and TLC's 32-bit integers hold the table ratios.    *)
(***************************************************************************)
EXTENDS Integers, Sequences, FiniteSets, TLC

VARIABLES
    category,     \* st.selectbox("Category")
    value,        \* st.number_input("Value")
    precision,    \* st.slider("Decimal precision")
    from_u,       \* st.selectbox("From")
    to_u,         \* st.selectbox("To")
    history,      \* st.session_state.history
    symbols,      \* st.cache_data entry of fetch_currency_symbols
    fetches,      \* GET requests sent to the currencies endpoint so far
    run,          \* what the last run of the script did and displayed
    call,         \* the arguments of a direct call of compute_result
    ret,          \* what that call returned or raised
    back          \* what the call in the opposite direction returned or raised

vars == <<category, value, precision, from_u, to_u, history, symbols, fetches,
          run, call, ret, back>>

uiVars == <<category, value, precision, from_u, to_u, history, symbols, fetches, run>>
engineVars == <<call, ret, back>>

-----------------------------------------------------------------------------
(* Exact arithmetic standing for Python's float operators.                  *)

Abs(x) == IF x < 0 THEN -x ELSE x

RECURSIVE GCD(_, _)
GCD(a, b) == IF b = 0 THEN a ELSE GCD(b, a % b)

RECURSIVE Strip(_, _, _)
Strip(n, d, e) ==
    IF n % 10 = 0 THEN Strip(n \div 10, d, e + 1)
    ELSE IF d % 2 = 0 THEN Strip(n * 5, d \div 2, e - 1)
    ELSE IF d % 5 = 0 THEN Strip(n * 2, d \div 5, e - 1)
    ELSE [n |-> n, d |-> d, e |-> e]

\* The canonical form of n/d * 10^e, for d > 0.
Norm(n, d, e) ==
    IF n = 0 THEN [n |-> 0, d |-> 1, e |-> 0]
    ELSE LET g == GCD(Abs(n), d) IN Strip(n \div g, d \div g, e)

Whole(k) == Norm(k, 1, 0)

\* The decimal literal m * 10^-k, e.g. 453.59237 is Dec(45359237, 5).
Dec(m, k) == Norm(m, 1, 0 - k)

RECURSIVE Pow10(_)
Pow10(k) == IF k = 0 THEN 1 ELSE 10 * Pow10(k - 1)

Min(a, b) == IF a <= b THEN a ELSE b

\* x * y * 10^e for x, y # 0, the tens taken out before multiplying.
RECURSIVE Times(_, _, _)
Times(x, y, e) ==
    IF x % 2 = 0 /\ y % 5 = 0 THEN Times(x \div 2, y \div 5, e + 1)
    ELSE IF x % 5 = 0 /\ y % 2 = 0 THEN Times(x \div 5, y \div 2, e + 1)
    ELSE [n |-> x * y, e |-> e]

\* a * b
Mul(a, b) ==
    IF a.n = 0 \/ b.n = 0 THEN Norm(0, 1, 0)
    ELSE LET g1 == GCD(Abs(a.n), b.d)
             g2 == GCD(Abs(b.n), a.d)
             p == Times(a.n \div g1, b.n \div g2, a.e + b.e)
         IN  Norm(p.n, (a.d \div g2) * (b.d \div g1), p.e)

\* a / b, for b # 0
Div(a, b) ==
    Mul(a, IF b.n > 0 THEN Norm(b.d, b.n, 0 - b.e) ELSE Norm(0 - b.d, 0 - b.n, 0 - b.e))

\* a + b
Add(a, b) ==
    LET e0 == Min(a.e, b.e)
        an == a.n * Pow10(a.e - e0)
        bn == b.n * Pow10(b.e - e0)
    IN  Norm(an * b.d + bn * a.d, a.d * b.d, e0)

\* a - b
Sub(a, b) == Add(a, [b EXCEPT !.n = 0 - b.n])

\* a <= b
Leq(a, b) == Sub(a, b).n <= 0

\* abs(a - b) <= tol
Within(a, b, tol) == Leq(Sub(a, b), tol) /\ Leq(Sub(b, a), tol)

-----------------------------------------------------------------------------
(* Categories, units and the linear tables.                                 *)

DEFAULT_CURRENCY_UNITS ==
    <<"EUR", "USD", "GBP", "JPY", "AUD", "CAD", "CHF", "CNY", "INR", "TRY", "SAR",
      "AED", "PKR">>

CategoryNames ==
    <<"Mass", "Length", "Temperature", "Time", "Area", "Volume", "Speed", "Currency">>

CATEGORIES ==
    [Mass        |-> <<"kg", "g", "mg", "lb", "oz">>,
     Length      |-> <<"m", "cm", "mm", "km", "inch", "ft", "yd", "mile">>,
     Temperature |-> <<"C", "F", "K">>,
     Time        |-> <<"second", "minute", "hour", "day">>,
     Area        |-> <<"m2", "cm2", "km2", "ft2", "acre">>,
     Volume      |-> <<"liter", "ml", "m3", "gallon">>,
     Speed       |-> <<"m/s", "km/h", "mph">>,
     Currency    |-> DEFAULT_CURRENCY_UNITS]

MASS ==
    ("kg" :> Whole(1000)) @@ ("g" :> Whole(1)) @@ ("mg" :> Dec(1, 3)) @@
    ("lb" :> Dec(45359237, 5)) @@ ("oz" :> Dec(283495, 4))

LENGTH ==
    ("km" :> Whole(1000)) @@ ("m" :> Whole(1)) @@ ("cm" :> Dec(1, 2)) @@
    ("mm" :> Dec(1, 3)) @@ ("inch" :> Dec(254, 4)) @@ ("ft" :> Dec(3048, 4)) @@
    ("yd" :> Dec(9144, 4)) @@ ("mile" :> Dec(1609344, 3))

TIME ==
    ("second" :> Whole(1)) @@ ("minute" :> Whole(60)) @@ ("hour" :> Whole(3600)) @@
    ("day" :> Whole(86400))

AREA ==
    ("m2" :> Whole(1)) @@ ("cm2" :> Dec(1, 4)) @@ ("km2" :> Whole(1000000)) @@
    ("ft2" :> Dec(92903, 6)) @@ ("acre" :> Dec(404686, 2))

VOLUME ==
    ("liter" :> Whole(1)) @@ ("ml" :> Dec(1, 3)) @@ ("m3" :> Whole(1000)) @@
    ("gallon" :> Dec(378541, 5))

SPEED ==
    ("m/s" :> Whole(1)) @@ ("km/h" :> Dec(277778, 6)) @@ ("mph" :> Dec(44704, 5))

MAPS ==
    [Mass |-> MASS, Length |-> LENGTH, Time |-> TIME, Area |-> AREA,
     Volume |-> VOLUME, Speed |-> SPEED]

Range(s) == {s[i] : i \in DOMAIN s}

-----------------------------------------------------------------------------
(* What a Python call does: it returns a value or raises an exception.      *)

\* A Python assignment: x is evaluated once and F applied to its value.
Bind(x, F(_)) == CHOOSE y \in {F(v) : v \in {x}} : TRUE

Return(v) == [kind |-> "return", val |-> v]
Raise(x) == [kind |-> "raise", exc |-> x]

-----------------------------------------------------------------------------
(* The rate source (api.frankfurter.app), seen from the two requests.       *)
(* A request ends in an exception of requests.get (no connection, timeout), *)
(* in a response with an error status, or in a response with a JSON body.   *)

\* The codes the rate source quotes; it knows nothing of the built-in list.
ServerCodes == {"AUD", "EUR", "GBP", "NOK", "USD"}

\* The (rate, date) pairs the source may answer with at different moments.
Quotes ==
    {[rate |-> Dec(9, 1), date |-> "2024-01-02"],
     [rate |-> Dec(11, 1), date |-> "2024-01-03"]}

Unreachable == [kind |-> "unreachable"]
Timeout == [kind |-> "timeout"]
ErrorStatus == [kind |-> "response", ok |-> FALSE, body |-> [message |-> "not found"]]
Json(b) == [kind |-> "response", ok |-> TRUE, body |-> b]

\* The answers to GET /latest?base=from_u&symbols=to_u.
RateResponses(f, t) ==
    {Unreachable, ErrorStatus, Json([rates |-> <<>>, date |-> "2024-01-02"])}
    \cup (IF f \in ServerCodes /\ t \in ServerCodes /\ f # t
          THEN {Json([rates |-> (t :> q.rate), date |-> q.date]) : q \in Quotes}
          ELSE {})

\* What a call consulted: used, the conversion rules it read; reqs, the rate
\* requests it sent, each with the response it got.
Traced(r, used, reqs) == r @@ [used |-> used, reqs |-> reqs]

\* The answers drawn for a conversion: when the category sends no request,
\* what the source would have answered is immaterial and one answer is drawn.
Answers(cat, f, t) == IF cat = "Currency" THEN RateResponses(f, t) ELSE {Unreachable}

\* currency_rate: the rate and its date, or the exception of the failing line.
currency_rate(f, t, resp) ==
    Traced(IF resp.kind \in {"unreachable", "timeout"} THEN Raise("RequestException")
           ELSE IF ~resp.ok THEN Raise("HTTPError")
           ELSE IF "rates" \notin DOMAIN resp.body THEN Raise("KeyError")
           ELSE IF t \notin DOMAIN resp.body.rates THEN Raise("KeyError")
           ELSE Return([rate |-> resp.body.rates[t],
                        date |-> IF "date" \in DOMAIN resp.body
                                 THEN resp.body.date ELSE ""]),
           {"rate"}, <<[base |-> f, symbols |-> t, resp |-> resp]>>)

-----------------------------------------------------------------------------
(* The conversion engine.                                                   *)

convert_temperature_scale(v, f, t) ==
    Traced(IF f \notin {"C", "F", "K"} THEN Raise("ValueError")
           ELSE LET c == IF f = "C" THEN v
                         ELSE IF f = "F"
                         THEN Div(Mul(Sub(v, Whole(32)), Whole(9)), Whole(5))
                         ELSE Sub(v, Dec(27315, 2))
                IN  IF t = "C" THEN Return(c)
                    ELSE IF t = "F"
                    THEN Return(Add(Div(Mul(c, Whole(9)), Whole(5)), Whole(32)))
                    ELSE IF t = "K" THEN Return(Add(c, Dec(27315, 2)))
                    ELSE Raise("ValueError"),
           {"temperature"}, <<>>)

convert_temperature(v, f, t) ==
    Traced(IF f \notin {"C", "F", "K"} THEN Raise("ValueError")
           ELSE LET c == IF f = "C" THEN v
                         ELSE IF f = "F"
                         THEN Div(Mul(Sub(v, Whole(32)), Whole(5)), Whole(9))
                         ELSE Sub(v, Dec(27315, 2))
                IN  IF t = "C" THEN Return(c)
                    ELSE IF t = "F"
                    THEN Return(Add(Div(Mul(c, Whole(9)), Whole(5)), Whole(32)))
                    ELSE IF t = "K" THEN Return(Add(c, Dec(27315, 2)))
                    ELSE Raise("ValueError"),
           {"temperature"}, <<>>)

Dispatch_linear_first(cat) ==
    IF cat = "Temperature" THEN "temperature"
    ELSE "table"

\* The branch compute_result takes for a category.
Dispatch(cat) ==
    IF cat = "Temperature" THEN "temperature"
    ELSE IF cat = "Currency" THEN "rate"
    ELSE "table"

\* MAPS[cat][u], a KeyError when either key is missing.
Lookup(cat, u) ==
    IF cat \notin DOMAIN MAPS THEN Raise("KeyError")
    ELSE IF u \notin DOMAIN MAPS[cat] THEN Raise("KeyError")
    ELSE Return(MAPS[cat][u])

Linear_value_only(v, cat, f, t) ==
    LET a == Lookup(cat, f)
        b == Lookup(cat, t)
    IN  Traced(IF a.kind = "raise" THEN a
               ELSE IF b.kind = "raise" THEN b
               ELSE Return(Div(v, b.val)),
               {"table"}, <<>>)

Linear_base_only(v, cat, f, t) ==
    LET a == Lookup(cat, f)
        b == Lookup(cat, t)
    IN  Traced(IF a.kind = "raise" THEN a
               ELSE IF b.kind = "raise" THEN b
               ELSE Return(Mul(v, a.val)),
               {"table"}, <<>>)

\* base_value = value * MAPS[category][from_u]; base_value / MAPS[category][to_u]
Linear(v, cat, f, t) ==
    LET a == Lookup(cat, f)
        b == Lookup(cat, t)
    IN  Traced(IF a.kind = "raise" THEN a
               ELSE IF b.kind = "raise" THEN b
               ELSE Return(Div(Mul(v, a.val), b.val)),
               {"table"}, <<>>)

\* compute_result, with resp the answer the rate source gives if it is asked.
compute_result(v, cat, f, t, resp) ==
    LET path == Dispatch(cat)
    IN  IF path = "temperature" THEN convert_temperature(v, f, t)
        ELSE IF path = "rate"
        THEN LET r == currency_rate(f, t, resp)
             IN  IF r.kind = "raise" THEN r
                 ELSE Traced(Return(Mul(v, r.val.rate)), r.used, r.reqs)
        ELSE Linear(v, cat, f, t)

-----
(* Direct calls of the engine: the arguments are drawn, compute_result is   *)
(* applied, and its result is converted back in the opposite direction.     *)

NoCall == [kind |-> "none"]
Idle == [action |-> "none"]

BogusUnit == "furlong"
BogusCategory == "Pressure"

LinearValues == {Whole(0), Whole(1), Whole(100), Dec(5, 1), Whole(0 - 3)}
TemperatureValues ==
    {Whole(0), Whole(32), Dec(27315, 2), Whole(100), Whole(212), Dec(37315, 2),
     Whole(0 - 40)}
CurrencyValues == {Whole(1), Whole(100)}

CallUnits(cat) ==
    IF cat = "Currency" THEN Range(DEFAULT_CURRENCY_UNITS) \cup ServerCodes \cup {BogusUnit}
    ELSE IF cat = BogusCategory THEN {"kg", "g"}
    ELSE Range(CATEGORIES[cat]) \cup {BogusUnit}

CallValues(cat) ==
    IF cat = "Temperature" THEN TemperatureValues
    ELSE IF cat = "Currency" THEN CurrencyValues
    ELSE LinearValues

Calls ==
    UNION {[value : CallValues(cat), category : {cat}, from_u : CallUnits(cat),
            to_u : CallUnits(cat)] : cat \in Range(CategoryNames) \cup {BogusCategory}}

EngineInit ==
    /\ category = "Mass" /\ value = Whole(1) /\ precision = 4
    /\ from_u = "kg" /\ to_u = "g"
    /\ history = <<>> /\ symbols = [kind |-> "none"] /\ fetches = 0 /\ run = Idle
    /\ call \in Calls
    /\ ret = NoCall
    /\ back = NoCall

EngineCall ==
    /\ ret = NoCall
    /\ \E resp \in Answers(call.category, call.from_u, call.to_u) :
           ret' = compute_result(call.value, call.category, call.from_u, call.to_u, resp)
    /\ UNCHANGED <<call, back>>
    /\ UNCHANGED uiVars

EngineCallBack ==
    /\ ret.kind = "return"
    /\ back = NoCall
    /\ \E resp \in Answers(call.category, call.to_u, call.from_u) :
           back' = compute_result(ret.val, call.category, call.to_u, call.from_u, resp)
    /\ UNCHANGED <<call, ret>>
    /\ UNCHANGED uiVars

EngineNext == EngineCall \/ EngineCallBack

EngineSpec == EngineInit /\ [][EngineNext]_vars

-----------------------------------------------------------------------------------------------------------------------------------------------------
(* Formatting: f"{result:.{precision}f}", as a sign, the digits before the   *)
(* point and the precision digits after it, rounded half to even.           *)

RECURSIVE Digits(_)
Digits(q) == IF q < 10 THEN <<q>> ELSE Append(Digits(q \div 10), q % 10)

\* k more digits of the quotient r/d, a remainder r < d being carried.
RECURSIVE LongDiv(_, _, _)
LongDiv(r, d, k) ==
    IF k = 0 THEN [digits |-> <<>>, rem |-> r]
    ELSE LET rest == LongDiv((r * 10) % d, d, k - 1)
         IN  [digits |-> <<(r * 10) \div d>> \o rest.digits, rem |-> rest.rem]

RECURSIVE Zeros(_)
Zeros(k) == IF k <= 0 THEN <<>> ELSE <<0>> \o Zeros(k - 1)

RECURSIVE Incr(_)
Incr(ds) ==
    IF ds = <<>> THEN <<1>>
    ELSE IF ds[Len(ds)] < 9 THEN [ds EXCEPT ![Len(ds)] = @ + 1]
    ELSE Append(Incr(SubSeq(ds, 1, Len(ds) - 1)), 0)

RECURSIVE Unpad(_)
Unpad(ds) == IF Len(ds) > 1 /\ ds[1] = 0 THEN Unpad(Tail(ds)) ELSE ds

\* The digits of abs(x) * 10^p rounded to an integer.
Rounded(x, p) ==
    LET m == Abs(x.n)
        k == x.e + p
        q == m \div x.d
        r == m % x.d
    IN  IF k >= 0
        THEN LET ld == LongDiv(r, x.d, k)
                 ds == Digits(q) \o ld.digits
             IN  IF 2 * ld.rem > x.d THEN Incr(ds) ELSE ds
        ELSE IF 0 - k >= 10 THEN <<0>>
        ELSE LET t == q % Pow10(0 - k)
                 w == q \div Pow10(0 - k)
                 up == \/ 2 * t > Pow10(0 - k)
                       \/ 2 * t = Pow10(0 - k) /\ (r > 0 \/ w % 2 = 1)
             IN  IF up THEN Digits(w + 1) ELSE Digits(w)

Format(x, p) ==
    Bind(Rounded(x, p), LAMBDA rs :
        Bind(Zeros(p + 1 - Len(rs)) \o rs, LAMBDA ds :
            [neg |-> x.n < 0,
             int |-> Unpad(SubSeq(ds, 1, Len(ds) - p)),
             frac |-> SubSeq(ds, Len(ds) - p + 1, Len(ds))]))

-----------------------------------------------------------------------------
(* The currency symbol list.                                                *)

\* Python's order of the strings that occur as keys.
Alphabetical ==
    <<"AED", "AUD", "CAD", "CHF", "CNY", "EUR", "GBP", "INR", "JPY", "NOK", "PKR",
      "SAR", "TRY", "USD", "message">>

sorted(keys) == SelectSeq(Alphabetical, LAMBDA c : c \in Range(keys))

\* The answers to GET /currencies: body is how .json() reads the body, keys
\* the keys of a JSON object in the order sent.
SymbolResponses ==
    {Unreachable, Timeout,
     [kind |-> "response", ok |-> TRUE, body |-> "object",
      keys |-> <<"EUR", "USD", "AUD", "GBP", "NOK">>],
     [kind |-> "response", ok |-> TRUE, body |-> "array", keys |-> <<>>],
     [kind |-> "response", ok |-> FALSE, body |-> "invalid", keys |-> <<>>],
     [kind |-> "response", ok |-> FALSE, body |-> "object", keys |-> <<"message">>]}

\* fetch_currency_symbols: every exception of the try block gives the
\* built-in list; the status of the response is not looked at.
fetch_currency_symbols(resp) ==
    IF resp.kind # "response" THEN DEFAULT_CURRENCY_UNITS
    ELSE IF resp.body = "invalid" THEN DEFAULT_CURRENCY_UNITS
    ELSE IF resp.body # "object" THEN DEFAULT_CURRENCY_UNITS
    ELSE sorted(resp.keys)

NotCached == [kind |-> "none"]
Cached(list) == [kind |-> "cached", val |-> list]

\* Lines 125-129 of a run showing category cat. st.cache_data calls
\* fetch_currency_symbols the first time only and keeps what it returned.
FetchNeeded(cat) == cat = "Currency" /\ symbols = NotCached

\* The list offered in the From and To boxes, syms being the cache entry.
Units(cat, syms) == IF cat = "Currency" THEN syms.val ELSE CATEGORIES[cat]

-----------------------------------------------------------------------------
(* The page.  Every user action reruns the script once.                     *)

MaxHistory == 2

\* The categories a user visits: every path of the engine, four of the six
\* linear tables.
Visited == {"Mass", "Length", "Temperature", "Time", "Speed", "Currency"}

\* The options a user picks in the To box: the first two.
Offered(units) == {units[i] : i \in {1, 2} \cap DOMAIN units}

\* What a run did and displayed: clicked, the button that started it ("" for
\* a changed input); msg, the kind of message shown; calls, the number of
\* calls of compute_result; reqs, the rate requests sent, each with its
\* answer; meta, what the message carries; fetched, the answer to the symbol
\* request, if one was sent.
Ran(clicked, msg, calls, reqs, meta) ==
    [clicked |-> clicked, msg |-> msg, calls |-> calls, reqs |-> reqs, meta |-> meta,
     fetched |-> <<>>]

Init ==
    /\ category = "Mass"
    /\ value = Whole(1)
    /\ precision = 4
    /\ from_u = "kg"
    /\ to_u = "g"
    /\ history = <<>>
    /\ symbols = NotCached
    /\ fetches = 0
    /\ run = Ran("", "", 0, <<>>, <<>>)
    /\ call = [value |-> Whole(1), category |-> "Mass", from_u |-> "kg", to_u |-> "g"]
    /\ ret = NoCall
    /\ back = NoCall

\* A new category: its unit list is new, so both unit boxes start over at
\* index 0 and index 1 (index 0 for a list of one).
SelectCategory ==
    \E cat \in Visited \ {category} :
        /\ category' = cat
        /\ IF FetchNeeded(cat)
           THEN \E resp \in SymbolResponses :
                   /\ symbols' = Cached(fetch_currency_symbols(resp))
                   /\ fetches' = fetches + 1
                   /\ run' = [Ran("", "", 0, <<>>, <<>>) EXCEPT !.fetched = <<resp>>]
           ELSE /\ UNCHANGED <<symbols, fetches>>
                /\ run' = Ran("", "", 0, <<>>, <<>>)
        /\ from_u' = Units(cat, symbols')[1]
        /\ to_u' = IF Len(Units(cat, symbols')) > 1
                   THEN Units(cat, symbols')[2] ELSE Units(cat, symbols')[1]
        /\ UNCHANGED <<value, precision, history>>
        /\ UNCHANGED engineVars

\* The other runs find the list of the category already in the cache.
SameList == ~FetchNeeded(category) /\ UNCHANGED <<symbols, fetches>>

SelectTo ==
    /\ SameList
    /\ \E u \in Offered(Units(category, symbols)) \ {to_u} : to_u' = u
    /\ run' = Ran("", "", 0, <<>>, <<>>)
    /\ UNCHANGED <<category, value, precision, from_u, history>>
    /\ UNCHANGED engineVars

\* Swap exchanges the two local names of this run only; Convert is not
\* clicked in the same run and the boxes keep their selections.
Swap ==
    /\ SameList
    /\ run' = Ran("Swap", "", 0, <<>>, <<>>)
    /\ UNCHANGED <<category, value, precision, from_u, to_u, history>>
    /\ UNCHANGED engineVars

SameUnits_never(f, t) == FALSE

\* if from_u == to_u
SameUnits(f, t) == f = t

Record(cat, v, f, t, result, formatted) ==
    [Category |-> cat, Value |-> v, From |-> f, To |-> t, Result |-> result,
     Formatted |-> formatted]

Appended_front(h, rec) == <<rec>> \o h

\* st.session_state.history.append(...)
Appended(h, rec) == Append(h, rec)

Attempt_append_first(v, cat, f, t, p, r1, r2) ==
    Bind(compute_result(v, cat, f, t, r1), LAMBDA res :
    Bind(currency_rate(f, t, r2), LAMBDA second :
        IF res.kind = "raise"
        THEN [msg |-> "error", calls |-> 1, reqs |-> res.reqs,
              meta |-> <<res.exc>>, rec |-> <<>>]
        ELSE [msg |-> IF cat = "Currency" /\ second.kind = "raise"
                      THEN "error" ELSE "success",
              calls |-> 1,
              reqs |-> IF cat = "Currency" THEN res.reqs \o second.reqs ELSE res.reqs,
              meta |-> IF cat # "Currency" THEN <<>>
                       ELSE IF second.kind = "raise" THEN <<second.exc>>
                       ELSE <<second.val.date>>,
              rec |-> <<Record(cat, v, f, t, res.val, Format(res.val, p))>>]))

\* The try block of the Convert action, r1 and r2 being the answers of the
\* rate source to a first and to a second request: the message shown (meta:
\* the rate date of a success, the exception of an error), the calls of the
\* engine, the requests sent and the record to append (none unless the
\* append is reached).
Attempt(v, cat, f, t, p, r1, r2) ==
    Bind(compute_result(v, cat, f, t, r1), LAMBDA res :
    Bind(currency_rate(f, t, r2), LAMBDA second :
        IF res.kind = "raise"
        THEN [msg |-> "error", calls |-> 1, reqs |-> res.reqs,
              meta |-> <<res.exc>>, rec |-> <<>>]
        ELSE IF cat = "Currency" /\ second.kind = "raise"
        THEN [msg |-> "error", calls |-> 1, reqs |-> res.reqs \o second.reqs,
              meta |-> <<second.exc>>, rec |-> <<>>]
        ELSE [msg |-> "success",
              calls |-> 1,
              reqs |-> IF cat = "Currency" THEN res.reqs \o second.reqs ELSE res.reqs,
              meta |-> IF cat = "Currency" THEN <<second.val.date>> ELSE <<>>,
              rec |-> <<Record(cat, v, f, t, res.val, Format(res.val, p))>>]))

Convert ==
    /\ SameList
    /\ Len(history) < MaxHistory
    /\ IF SameUnits(from_u, to_u)
       THEN /\ run' = Ran("Convert", "warning", 0, <<>>, <<>>)
            /\ UNCHANGED history
       ELSE \E r1, r2 \in Answers(category, from_u, to_u) :
               \E a \in {Attempt(value, category, from_u, to_u, precision, r1, r2)} :
                   /\ run' = Ran("Convert", a.msg, a.calls, a.reqs, a.meta)
                   /\ history' = IF a.rec = <<>> THEN history
                                 ELSE Appended(history, a.rec[1])
    /\ UNCHANGED <<category, value, precision, from_u, to_u>>
    /\ UNCHANGED engineVars

ClearHistory ==
    /\ SameList
    /\ history' = <<>>
    /\ run' = Ran("Clear history", "", 0, <<>>, <<>>)
    /\ UNCHANGED <<category, value, precision, from_u, to_u>>
    /\ UNCHANGED engineVars

\* Download CSV: the rows written are the history; nothing is written when
\* the history is empty.
DownloadCSV ==
    /\ SameList
    /\ run' = Ran("Download CSV", IF history # <<>> THEN "download" ELSE "info",
                  0, <<>>, history)
    /\ UNCHANGED <<category, value, precision, from_u, to_u, history>>
    /\ UNCHANGED engineVars

\* The four tests of ConversionTests, in the order unittest runs them; resp
\* is the answer of the rate source to test_currency_soft.
Tests(resp) ==
    Bind(compute_result(Whole(1), "Currency", "EUR", "USD", resp), LAMBDA cur :
    Bind(compute_result(Whole(1), "Mass", "kg", "g", resp), LAMBDA mass :
    Bind(compute_result(Whole(100), "Speed", "km/h", "m/s", resp), LAMBDA speed :
    Bind(compute_result(Whole(0), "Temperature", "C", "F", resp), LAMBDA temp :
        [calls |-> 4,
         reqs |-> cur.reqs \o mass.reqs \o speed.reqs \o temp.reqs,
         results |->
           <<IF cur.kind = "return" /\ cur.val.n > 0 THEN "ok" ELSE "skipped",
             IF mass.kind = "return" /\ Within(mass.val, Whole(1000), Dec(1, 6))
             THEN "ok" ELSE "failed",
             IF speed.kind = "return" /\ Within(speed.val, Dec(277778, 4), Dec(1, 2))
             THEN "ok" ELSE "failed",
             IF temp.kind = "return" /\ Within(temp.val, Whole(32), Dec(1, 6))
             THEN "ok" ELSE "failed">>]))))

RunUnitTests ==
    /\ SameList
    /\ \E resp \in RateResponses("EUR", "USD") :
          \E t \in {Tests(resp)} :
             run' = Ran("Run unit tests",
                        IF "failed" \in Range(t.results) THEN "failed" ELSE "passed",
                        t.calls, t.reqs, t.results)
    /\ UNCHANGED <<category, value, precision, from_u, to_u, history>>
    /\ UNCHANGED engineVars

Next ==
    \/ SelectCategory
    \/ SelectTo
    \/ Swap
    \/ Convert
    \/ ClearHistory
    \/ DownloadCSV
    \/ RunUnitTests

Spec == Init /\ [][Next]_vars

-----
(* Properties of the engine, checked under EngineSpec.                      *)

LinearCategories == DOMAIN MAPS

Called == ret # NoCall

KnownUnits(cat) == Range(CATEGORIES[cat])

BothKnown == call.from_u \in KnownUnits(call.category) /\ call.to_u \in KnownUnits(call.category)

\* C1: for a linear category and two units of its table, the result r of
\* compute_result(v, category, from_u, to_u) is v * table[from_u] / table[to_u],
\* stated without the division as r * table[to_u] = v * table[from_u]; 1 kg is
\* 1000 g, and 100 km/h is 27.7778 m/s within 0.01.
C1_LinearFormula ==
    (Called /\ call.category \in LinearCategories /\ BothKnown) =>
        /\ ret.kind = "return"
        /\ Mul(ret.val, MAPS[call.category][call.to_u])
             = Mul(call.value, MAPS[call.category][call.from_u])
        /\ (call.category = "Mass" /\ call.from_u = "kg" /\ call.to_u = "g"
              /\ call.value = Whole(1)) => ret.val = Whole(1000)
        /\ (call.category = "Speed" /\ call.from_u = "km/h" /\ call.to_u = "m/s"
              /\ call.value = Whole(100)) => Within(ret.val, Dec(277778, 4), Dec(1, 2))

C1_Witness ==
    /\ Called /\ ret.kind = "return"
    /\ call.category = "Speed" /\ call.from_u = "km/h" /\ call.to_u = "m/s"
    /\ call.value = Whole(100)

\* Nine times the Celsius value of x in unit u: C: 9x, F: 5(x - 32),
\* K: 9(x - 273.15). Two readings are the same temperature when these agree.
NineCelsius(x, u) ==
    IF u = "C" THEN Mul(x, Whole(9))
    ELSE IF u = "F" THEN Mul(Sub(x, Whole(32)), Whole(5))
    ELSE Mul(Sub(x, Dec(27315, 2)), Whole(9))

Freezing == ("C" :> Whole(0)) @@ ("F" :> Whole(32)) @@ ("K" :> Dec(27315, 2))
Boiling == ("C" :> Whole(100)) @@ ("F" :> Whole(212)) @@ ("K" :> Dec(37315, 2))

\* C2: for two temperature units the result is the target-unit value of the
\* Celsius value of the input (input and result have the same Celsius
\* value), and the reference points 0 C = 32 F = 273.15 K and
\* 100 C = 212 F = 373.15 K are mapped to one another in every direction.
C2_Temperature ==
    (Called /\ call.category = "Temperature" /\ BothKnown) =>
        /\ ret.kind = "return"
        /\ NineCelsius(ret.val, call.to_u) = NineCelsius(call.value, call.from_u)
        /\ call.value = Freezing[call.from_u] => ret.val = Freezing[call.to_u]
        /\ call.value = Boiling[call.from_u] => ret.val = Boiling[call.to_u]

C2_Witness ==
    /\ Called /\ call.category = "Temperature"
    /\ call.from_u = "K" /\ call.to_u = "F" /\ call.value = Dec(37315, 2)
    /\ ret.kind = "return" /\ ret.val = Whole(212)

UnknownUnitGiven ==
    /\ Called
    /\ call.category \in DOMAIN CATEGORIES
    /\ ~BothKnown

\* C4 as claimed: for any category, a call with a source or target unit that is
\* not a unit of that category raises and returns no number.
C4_AnyCategoryRaises == UnknownUnitGiven => ret.kind = "raise"

GotRate(req) ==
    /\ req.resp.kind = "response" /\ req.resp.ok
    /\ "rates" \in DOMAIN req.resp.body
    /\ req.symbols \in DOMAIN req.resp.body.rates

\* What the engine does enforce of the unknown-unit rule: for Temperature and
\* the linear categories a call with a source or target unit that is not a
\* unit of the category raises and sends nothing; for Currency the engine
\* checks no unit and returns a number exactly when the rate source answers
\* with a rate for the target code.
UnknownUnit_TableAndTemperatureRaise ==
    UnknownUnitGiven =>
        IF call.category = "Currency"
        THEN ret.kind = "return" <=> GotRate(ret.reqs[1])
        ELSE ret.kind = "raise" /\ ret.reqs = <<>>

\* C6: every supported category takes exactly one path: Temperature the
\* formula alone, Currency the rate lookup alone (one request), a linear
\* category its table alone; only Currency sends a rate request.
C6_DispatchExclusive ==
    (Called /\ call.category \in DOMAIN CATEGORIES) =>
        /\ call.category = "Temperature" => ret.used = {"temperature"} /\ ret.reqs = <<>>
        /\ call.category = "Currency" => ret.used = {"rate"} /\ Len(ret.reqs) = 1
        /\ call.category \in LinearCategories => ret.used = {"table"} /\ ret.reqs = <<>>
        /\ call.category \in {"Temperature", "Currency"} \cup LinearCategories

C6_Witness ==
    /\ Called /\ call.category = "Currency" /\ ret.kind = "return"
    /\ ret.used = {"rate"}

\* C7: for a linear category, converting x from a to b and the result back
\* from b to a yields x again.
C7_RoundTrip ==
    (back # NoCall /\ call.category \in LinearCategories) =>
        back.kind = "return" /\ back.val = call.value

C7_Witness ==
    /\ back # NoCall /\ back.kind = "return"
    /\ call.category = "Mass" /\ call.from_u = "lb" /\ call.to_u = "oz"
    /\ call.value = Dec(5, 1)
    /\ ret.val # call.value

-----------------------------------------------------------------------------
(* Properties of the page, checked under Spec.                              *)

\* The answer carries no usable rate: the source was not reached, answered
\* with an error status, or sent no rate for the target code.
RateFailed(req) == ~GotRate(req)

ConvertRan == run.clicked = "Convert"

\* C3: a Convert on Currency in which a rate request fails (unreachable
\* source, error status or no rate for the pair; the first request or the
\* second) shows an error, leaves the history exactly as it was, and leaves
\* every input and the symbol cache as they were for the actions that follow.
C3_RateFailureKeepsHistory ==
    [][(/\ run'.clicked = "Convert"
        /\ category' = "Currency"
        /\ \E i \in DOMAIN run'.reqs : RateFailed(run'.reqs[i]))
       => /\ run'.msg = "error"
          /\ history' = history
          /\ UNCHANGED <<category, value, precision, from_u, to_u, symbols, fetches>>]_vars

C3_Witness ==
    /\ ConvertRan /\ category = "Currency" /\ run.msg = "error"
    /\ Len(run.reqs) = 2 /\ GotRate(run.reqs[1]) /\ RateFailed(run.reqs[2])
    /\ history # <<>>

DateOf(req) == IF "date" \in DOMAIN req.resp.body THEN req.resp.body.date ELSE ""

\* C5 as claimed: a successful currency conversion sends a single rate request,
\* the amount stored is the input times the rate of that response, and the
\* date shown is the date of that same response.
C5_OneResponse ==
    (ConvertRan /\ run.msg = "success" /\ category = "Currency") =>
        /\ Len(run.reqs) = 1
        /\ history[Len(history)].Result
             = Mul(value, run.reqs[1].resp.body.rates[to_u])
        /\ run.meta = <<DateOf(run.reqs[1])>>

\* The symbol fetch failed: nothing arrived, the status is an error, or the
\* body is no JSON object.
FetchFailed(resp) == resp.kind # "response" \/ ~resp.ok \/ resp.body # "object"

\* C8 as claimed: the symbol list is requested at most once, the list in use
\* is the one that request produced, and after a failed request it is the
\* built-in list of 13 codes, with no error shown.
C8_FetchedOnceWithFallback ==
    /\ fetches <= 1
    /\ (run.fetched # <<>> /\ FetchFailed(run.fetched[1])) =>
          /\ symbols = Cached(DEFAULT_CURRENCY_UNITS)
          /\ Len(symbols.val) = 13
          /\ run.msg # "error"

\* C9: the history changes in two ways only: a successful Convert appends one
\* record, for the inputs of the page, after the records there, which stay
\* as they are; Clear history makes the list empty. Every other run (Swap,
\* Download CSV, Run unit tests, a failed or refused Convert, a changed
\* input) leaves it as it was.
C9_HistoryAppendOrClear ==
    [][IF run'.clicked = "Convert" /\ run'.msg = "success"
       THEN /\ Len(history') = Len(history) + 1
            /\ SubSeq(history', 1, Len(history)) = history
            /\ history'[Len(history')].Category = category
            /\ history'[Len(history')].Value = value
            /\ history'[Len(history')].From = from_u
            /\ history'[Len(history')].To = to_u
       ELSE IF run'.clicked = "Clear history"
       THEN history' = <<>>
       ELSE history' = history]_vars

C9_Witness ==
    /\ ConvertRan /\ run.msg = "success"
    /\ Len(history) = 2
    /\ history[1] # history[2]

\* C10: a Convert with the source unit equal to the target unit shows the
\* warning only: compute_result is not called, no rate request is sent and
\* the history stays as it was.
C10_SameUnitWarns ==
    [][(run'.clicked = "Convert" /\ from_u = to_u)
       => /\ run'.msg = "warning"
          /\ run'.calls = 0
          /\ run'.reqs = <<>>
          /\ history' = history]_vars

C10_Witness ==
    /\ ConvertRan /\ run.msg = "warning"
    /\ category = "Currency" /\ from_u = to_u /\ Len(symbols.val) > 1
    /\ history # <<>>

====
